---- MODULE Spec2Model ----
(***************************************************************************)
(* ScopedEngine (modules/nlu/src/backend/engine.ts): the train-or-load     *)
(* orchestrator, its staleness timer and the entry of extract.             *)
(*                                                                         *)
(* JavaScript runs every handler to its next await without interruption,   *)
(* so one action is the code between two awaits: a call up to its first    *)
(* await, or the resumption after an awaited operation settles.            *)
(* Awaited collaborators (storage, learners) settle with a value or a      *)
(* rejection; both outcomes are drawn with \E.                             *)
(***************************************************************************)
EXTENDS Integers, Sequences, FiniteSets, TLC

(***************************************************************************)
(* Bounds of the model.                                                    *)
(***************************************************************************)
MaxCalls == 3    \* trainOrLoad calls made by init, extract, the timer and external callers
MaxEdits == 1    \* edits of the stored intent definitions
MaxSlots == 2    \* call frames of trainOrLoad that can hold a sync cycle at once
MaxFaults == 1   \* rejections of storage and learner operations in one run

(***************************************************************************)
(* Program constants.                                                      *)
(***************************************************************************)
MIN_NB_UTTERANCES == 3
MinAutoTrainInterval == 5000

\* this.languages: the configured languages, in the order the constructor got them
languages == <<"en", "fr">>
\* every language code that can appear as a key of intent.utterances
Langs == {"en", "fr", "de"}
\* values of ms(config.autoTrainInterval || '0') the engine is constructed with
Intervals == {4999, 5000}

\* MODEL_TYPES: INTENT, SLOT_LANG, SLOT_CRF
MODEL_TYPES == {"intent", "skipgram", "crf"}

(***************************************************************************)
(* Intent definitions.  An intent is a name, its contexts and its          *)
(* utterances; utterances is an object whose keys keep their insertion     *)
(* order, modelled as a sequence of <<language, list of utterances>>.      *)
(***************************************************************************)
Utt3 == <<"u1", "u2", "u3">>
Utt2 == <<"u1", "u2">>

\* an intent definition of the context "global"
Intent(name, utterances) ==
  [name |-> name, contexts |-> <<"global">>, utterances |-> utterances]

IntentUniverse ==
  << <<>>,
     << Intent("greet", << <<"en", Utt3>>, <<"fr", Utt3>> >>) >>,
     << Intent("greet", << <<"en", Utt3>>, <<"de", Utt3>> >>) >>,
     << Intent("greet", << <<"fr", Utt3>>, <<"en", Utt2>> >>) >> >>

IntentSets == {IntentUniverse[i] : i \in DOMAIN IntentUniverse}

\* intent.utterances[lang] || []
UtterancesOf(intent, lang) ==
  LET u == intent.utterances
      hits == {i \in DOMAIN u : u[i][1] = lang}
  IN IF hits = {} THEN <<>> ELSE u[CHOOSE i \in hits : TRUE][2]

\* Object.keys(intent.utterances)
KeysOf(intent) == [i \in DOMAIN intent.utterances |-> intent.utterances[i][1]]

RECURSIVE Uniq(_)
Uniq(s) ==
  IF s = <<>> THEN <<>>
  ELSE LET front == Uniq(SubSeq(s, 1, Len(s) - 1))
           last == s[Len(s)]
       IN IF \E i \in DOMAIN front : front[i] = last THEN front ELSE Append(front, last)

RECURSIVE FlatMapLangs(_)
FlatMapLangs(intents) ==
  IF intents = <<>> THEN <<>>
  ELSE SelectSeq(KeysOf(Head(intents)),
                 LAMBDA l : Len(UtterancesOf(Head(intents), l)) >= MIN_NB_UTTERANCES)
       \o FlatMapLangs(Tail(intents))

getTrainingLanguages(intents) == Uniq(FlatMapLangs(intents))

\* intentDefs.filter(i => (i.utterances[lang] || []).length >= MIN_NB_UTTERANCES)
TrainableIntents(intents, lang) ==
  SelectSeq(intents, LAMBDA i : Len(UtterancesOf(i, lang)) >= MIN_NB_UTTERANCES)

(***************************************************************************)
(* computeModelHash: md5 over JSON.stringify(intents).  JSON.stringify     *)
(* writes the keys of an object in their insertion order; md5 is taken as  *)
(* injective on the strings that occur, a digest being the position of the *)
(* string among them.  NoHash is the undefined _currentModelHash.          *)
(***************************************************************************)
JSONstringify(intents) ==
  [i \in DOMAIN intents |->
     <<"name", intents[i].name, "contexts", intents[i].contexts,
       "utterances", intents[i].utterances>>]

\* the definitions of IntentUniverse, then the same and other contents written with
\* the keys of utterances in another order
HashInputs ==
  IntentUniverse \o
  << << Intent("greet", << <<"fr", Utt3>>, <<"en", Utt3>> >>) >>,
     << Intent("greet", << <<"de", Utt3>>, <<"en", Utt3>> >>) >>,
     << Intent("greet", << <<"en", Utt2>>, <<"fr", Utt3>> >>) >>,
     << Intent("greet", << <<"en", Utt3>> >>) >>,
     << Intent("greet", << <<"en", Utt3>>, <<"fr", Utt2>> >>) >>,
     << Intent("greet", << <<"fr", Utt2>>, <<"en", Utt3>> >>) >>,
     << Intent("bye", << <<"en", Utt3>>, <<"fr", Utt3>> >>) >>,
     << Intent("bye", << <<"fr", Utt3>>, <<"en", Utt3>> >>) >> >>

Md5(str) ==
  CHOOSE d \in DOMAIN HashInputs : JSONstringify(HashInputs[d]) = str

computeModelHash(intents) == Md5(JSONstringify(intents))

NoHash == 0
Hashes == DOMAIN IntentUniverse

Slots == 1 .. MaxSlots

VARIABLES
  _autoTrainInterval,     \* ms(config.autoTrainInterval || '0'), set by the constructor
  faultsLeft,             \* rejections the storage and the learners can still produce
  intentDefs,             \* what storage.getIntents() resolves to
  store,                  \* persisted artifacts: <<hash, lang, type>>
  _isSyncing,
  _isSyncingTwice,
  _preloaded,
  _currentModelHash,
  _exactIntentMatchers,   \* lang -> hash of the training set it was built for
  intentClassifiers,      \* lang -> hash of the models it loaded
  slotExtractors,         \* lang -> hash of the models it loaded
  _autoTrainTimer,        \* TRUE when setInterval is armed
  inited,                 \* init() has run
  timer,                  \* the interval callback: [pc, needed]
  ex,                     \* the extract call: [pc]
  cyc,                    \* slot -> frame of a trainOrLoad call running a cycle
  ncalls,                 \* trainOrLoad calls made so far
  edits,                  \* edits of intentDefs so far
  started,                \* history: sync cycles started
  lastEnd,                \* history: [n, ok], the cycles ended so far and whether the last one succeeded
  lastRet,                \* history: the value the last settled call of trainOrLoad resolved to
  trained,                \* history: hashes for which an ended unforced cycle invoked a learner's train
  defaultLanguage,        \* the constructor's defaultLanguage
  now,                    \* Date.now(), counted from the start of the last pipeline run
  run,                    \* the pipeline run of the extract call: retry state, res, and its history
  ds,                     \* the NLUStructure of the run
  pf                      \* arguments and results of the pure functions applied on their own

engineVars == <<_isSyncing, _isSyncingTwice, _preloaded, _currentModelHash>>
modelVars == <<_exactIntentMatchers, intentClassifiers, slotExtractors>>
envVars == <<_autoTrainInterval, intentDefs, store, edits>>
histVars == <<started, lastEnd, lastRet, trained>>
vars == <<_autoTrainInterval, faultsLeft, intentDefs, store, _isSyncing, _isSyncingTwice, _preloaded,
          _currentModelHash, _exactIntentMatchers, intentClassifiers, slotExtractors,
          _autoTrainTimer, inited, timer, ex, cyc, ncalls, edits,
          started, lastEnd, lastRet, trained, defaultLanguage, now, run, ds, pf>>
pipeVars == <<defaultLanguage, now, run, ds, pf>>

\* the engine state a pipeline run reads
Snapshot ==
  [hash |-> _currentModelHash, primed |-> _preloaded,
   exact |-> _exactIntentMatchers, clf |-> intentClassifiers, slot |-> slotExtractors]

NoModels == [l \in Langs |-> NoHash]

EmptySnapshot ==
  [hash |-> NoHash, primed |-> FALSE, exact |-> NoModels, clf |-> NoModels, slot |-> NoModels]

IdleFrame ==
  [pc |-> "idle", sub |-> "", force |-> FALSE, intents |-> <<>>,
   hash |-> NoHash, phase |-> 0, li |-> 0, slotModels |-> {},
   busy |-> FALSE, before |-> EmptySnapshot, loadFailed |-> FALSE,
   attempted |-> {}, raised |-> {}, forced |-> FALSE, follows |-> "none"]

Active(s) == cyc[s].pc # "idle"
ActiveSlots == {s \in Slots : Active(s)}

\* the engine after construction, over the stored definitions `defs`
EngineInit(defs, intervals, faults) ==
  /\ _autoTrainInterval \in intervals
  /\ faultsLeft = faults
  /\ intentDefs \in defs
  /\ store = {}
  /\ _isSyncing = FALSE
  /\ _isSyncingTwice = FALSE
  /\ _preloaded = FALSE
  /\ _currentModelHash = NoHash
  /\ _exactIntentMatchers = NoModels
  /\ intentClassifiers = NoModels
  /\ slotExtractors = NoModels
  /\ _autoTrainTimer = FALSE
  /\ inited = FALSE
  /\ timer = [pc |-> "idle", needed |-> FALSE]
  /\ ex = [pc |-> "idle"]
  /\ cyc = [s \in Slots |-> IdleFrame]
  /\ ncalls = 0
  /\ edits = 0
  /\ started = 0
  /\ lastEnd = [n |-> 0, ok |-> TRUE]
  /\ lastRet = NoHash
  /\ trained = {}

\* an intent of a pipeline result: its name, its context and its confidence in tenths
NoIntent == [name |-> "undefined", context |-> "", confidence |-> 0]

\* no NLUStructure yet
NoDs ==
  [rawText |-> "", includedContexts |-> <<>>, detectedLanguage |-> "undefined",
   language |-> "undefined", lowerText |-> "", tokens |-> <<>>, entities |-> <<>>,
   sanitizedText |-> "", intents |-> <<>>, intent |-> NoIntent, slots |-> <<>>]

\* no pipeline run yet.  res is what extract returns: ctx is the NLUStructure that res
\* is, or NoDs when res is the literal { errored: true }
IdleRun ==
  [stage |-> "idle", sub |-> 0, text |-> "", includedContexts |-> <<>>,
   t0 |-> 0, tries |-> 0, interval |-> 0, tryStart |-> 0, giveup_time |-> 0, wake |-> 0,
   res |-> [errored |-> TRUE, ms |-> -1, ctx |-> NoDs],
   attempts |-> 0, succeeded |-> 0, faults |-> 0, predicted |-> FALSE, tagged |-> FALSE,
   exact |-> FALSE, done |-> FALSE]

NoPf == [op |-> "none"]

\* the engine with the default language "en", driven without a detailed pipeline run
InitWith(defs, intervals, faults) ==
  /\ EngineInit(defs, intervals, faults)
  /\ defaultLanguage = "en"
  /\ now = 0
  /\ run = IdleRun
  /\ ds = NoDs
  /\ pf = NoPf

Init == InitWith(IntentSets, Intervals, MaxFaults)

\* what an awaited storage or learner operation can settle to: TRUE is a value, FALSE a rejection
Outcomes == IF faultsLeft > 0 THEN BOOLEAN ELSE {TRUE}

\* what slotExtractors[lang].train can settle to: both payloads, no payload, or a rejection
TaggerOutcomes == IF faultsLeft > 0 THEN {"both", "none", "raise"} ELSE {"both"}

\* an awaited operation settles; anything but the regular value uses up a fault
Settle(regular) == faultsLeft' = IF regular THEN faultsLeft ELSE faultsLeft - 1

EditIntents ==
  /\ edits < MaxEdits
  /\ \E d \in IntentSets : d # intentDefs /\ intentDefs' = d
  /\ edits' = edits + 1
  /\ UNCHANGED <<_autoTrainInterval, faultsLeft, store, engineVars, modelVars,
                 _autoTrainTimer, inited, timer, ex, cyc, ncalls, histVars, pipeVars>>

(***************************************************************************)
(* Storage (./storage): the artifacts persisted for a hash and a language. *)
(***************************************************************************)
modelExists(hash, lang) == \E t \in MODEL_TYPES : <<hash, lang, t>> \in store

getModelsFromHash(hash, lang) == {t \in MODEL_TYPES : <<hash, lang, t>> \in store}

\* truthiness of a JavaScript value [type, val]: a boolean is its value, an object
\* (a pending promise included) is truthy
Truthy(v) == IF v.type = "boolean" THEN v.val ELSE TRUE

\* this.languages.map(async lang => await this.storage.modelExists(..)).every(_.identity):
\* the callback is async, so the array holds promises, and every() tests the promises
ModelsExists(hash) ==
  LET promises == [i \in DOMAIN languages |->
                     [type |-> "promise", val |-> modelExists(hash, languages[i])]]
  IN \A i \in DOMAIN promises : Truthy(promises[i])

(***************************************************************************)
(* trainOrLoad, up to its first await.                                     *)
(***************************************************************************)
AlreadySyncing_never == FALSE

\* if (this._isSyncing)
AlreadySyncing == _isSyncing

RerunRequested_never == FALSE

\* if (this._isSyncingTwice), in the finally block
RerunRequested == _isSyncingTwice

FreeSlot == CHOOSE s \in Slots : ~Active(s) /\ \A t \in Slots : ~Active(t) => s <= t

NewFrame(force, before) ==
  [IdleFrame EXCEPT !.pc = "getIntents", !.force = force, !.before = before]

FollowUpForce_carried(rec) == rec.forced

\* return this.trainOrLoad(), in the finally block: forceRetrain takes its default
FollowUpForce(rec) == FALSE

\* the frame of the follow-up call; follows records whether a call with forceRetrain
\* true was among those that arrived during the cycle of rec
FollowUpFrame(rec, before) ==
  [NewFrame(FollowUpForce(rec), before)
     EXCEPT !.follows = IF rec.forced THEN "forced" ELSE "plain"]

\* a call of trainOrLoad(force); the caller's own variables are left to it.
\* The early return resolves the call to undefined (NoHash).
TrainOrLoad(force) ==
  /\ ncalls < MaxCalls
  /\ ncalls' = ncalls + 1
  /\ IF AlreadySyncing
     THEN /\ _isSyncingTwice' = TRUE
          /\ cyc' = [s \in Slots |->
                       IF Active(s)
                       THEN [cyc[s] EXCEPT !.busy = TRUE, !.forced = @ \/ force]
                       ELSE cyc[s]]
          /\ lastRet' = NoHash
          /\ UNCHANGED <<_isSyncing, started>>
     ELSE /\ \E s \in Slots : ~Active(s)
          /\ _isSyncing' = TRUE
          /\ cyc' = [s \in Slots |->
                       IF s = FreeSlot THEN NewFrame(force, Snapshot)
                       ELSE IF Active(s) THEN [cyc[s] EXCEPT !.busy = TRUE]
                       ELSE cyc[s]]
          /\ started' = started + 1
          /\ UNCHANGED <<_isSyncingTwice, lastRet>>

\* variables a call of trainOrLoad never writes before its first await
callFrame == <<envVars, _preloaded, _currentModelHash, modelVars,
               lastEnd, trained>>

(***************************************************************************)
(* The end of a cycle: the assignments after a successful load or the      *)
(* outer catch, then the finally block.  `return this.trainOrLoad()` makes *)
(* the promise of this call adopt the promise of the follow-up call, so    *)
(* its caller stays pending until a cycle ends with no rerun; an extract   *)
(* awaiting its call resumes then.                                         *)
(***************************************************************************)
Finish(s, rec, ok) ==
  LET hashAfter == IF ok THEN rec.hash ELSE _currentModelHash
      primedAfter == IF ok THEN TRUE ELSE _preloaded
      after == [hash |-> hashAfter, primed |-> primedAfter,
                exact |-> _exactIntentMatchers, clf |-> intentClassifiers,
                slot |-> slotExtractors]
  IN /\ _currentModelHash' = hashAfter
     /\ _preloaded' = primedAfter
     /\ _isSyncingTwice' = FALSE
     /\ IF RerunRequested
        THEN /\ _isSyncing' = TRUE
             /\ cyc' = [cyc EXCEPT ![s] = FollowUpFrame(rec, after)]
             /\ started' = started + 1
             /\ UNCHANGED <<lastRet, ex>>
        ELSE /\ _isSyncing' = FALSE
             /\ cyc' = [cyc EXCEPT ![s] = IdleFrame]
             /\ lastRet' = hashAfter
             /\ ex' = IF ex.pc = "awaitSync" THEN [ex EXCEPT !.pc = "pipeline"] ELSE ex
             /\ UNCHANGED started
     /\ lastEnd' = [n |-> lastEnd.n + 1, ok |-> ok]
     /\ trained' = IF rec.attempted # {} /\ ~rec.force
                  THEN trained \cup {rec.hash} ELSE trained
     /\ UNCHANGED <<envVars, modelVars, _autoTrainTimer, inited, timer, ncalls, pipeVars>>

\* a step of the cycle in slot s that only moves its frame
Step(s, rec) ==
  /\ cyc' = [cyc EXCEPT ![s] = rec]
  /\ UNCHANGED <<_autoTrainInterval, intentDefs, edits, engineVars,
                 _autoTrainTimer, inited, timer, ex, ncalls, histVars, pipeVars>>

(***************************************************************************)
(* loadModels and trainModels, entered synchronously from trainOrLoad.     *)
(***************************************************************************)
\* loadModels up to its first await: the loop over getTrainingLanguages(intents)
EnterLoad(rec, phase) ==
  IF getTrainingLanguages(rec.intents) = <<>>
  THEN [rec EXCEPT !.pc = "loadDone", !.sub = "", !.phase = phase]
  ELSE [rec EXCEPT !.pc = "load", !.sub = "getModels", !.li = 1, !.phase = phase]

\* the next index of this.languages, from `from` on, that has trainable intents
NextTrainable(intents, from) ==
  LET cand == {i \in DOMAIN languages :
                 i >= from /\ TrainableIntents(intents, languages[i]) # <<>>}
  IN IF cand = {} THEN Len(languages) + 1
     ELSE CHOOSE i \in cand : \A j \in cand : i <= j

\* the loop of trainModels, from index `from`, up to the next await
TrainFrom(rec, from) ==
  LET i == NextTrainable(rec.intents, from)
  IN IF i > Len(languages)
     THEN [rec EXCEPT !.pc = "trainDone", !.sub = ""]
     ELSE [rec EXCEPT !.pc = "train", !.sub = "clfTrain", !.li = i,
                      !.slotModels = {}, !.attempted = @ \cup {languages[i]}]

EnterTrain(rec) == TrainFrom(rec, 1)

AfterTrainError_abort(li) == Len(languages) + 1

\* catch (err) inside the for loop of trainModels: the loop goes on with the next language
AfterTrainError(li) == li + 1

LoadErrorCaught_never(phase) == FALSE

\* catch (e) around the first loadModels of a cycle: only the load before training is guarded
LoadErrorCaught(phase) == phase = 1

(***************************************************************************)
(* The steps of a cycle.                                                   *)
(***************************************************************************)
\* await this.getIntents() settles
GetIntentsDone(s) ==
  /\ cyc[s].pc = "getIntents"
  /\ \E ok \in Outcomes :
       /\ Settle(ok)
       /\ IF ~ok
          THEN Finish(s, cyc[s], FALSE)
          ELSE LET modelHash == computeModelHash(intentDefs)
                   rec == [cyc[s] EXCEPT !.intents = intentDefs, !.hash = modelHash]
               IN /\ Step(s, IF ~rec.force /\ ModelsExists(modelHash)
                             THEN EnterLoad(rec, 1) ELSE EnterTrain(rec))
                  /\ UNCHANGED <<store, modelVars>>

LoadLang(rec) == getTrainingLanguages(rec.intents)[rec.li]

\* await this.storage.getModelsFromHash(modelHash, lang) settles; the three checks
LoadGetModels(s) ==
  LET rec == cyc[s]
      models == getModelsFromHash(rec.hash, LoadLang(rec))
  IN /\ rec.pc = "load" /\ rec.sub = "getModels"
     /\ Step(s, IF MODEL_TYPES \subseteq models
                THEN [rec EXCEPT !.sub = "trainingSets"]
                ELSE [rec EXCEPT !.pc = "loadFailed", !.sub = ""])
     /\ UNCHANGED <<faultsLeft, store, modelVars>>

\* await this.getTrainingSets settles; the exact matcher is replaced and
\* this.intentClassifiers[lang].load is called (a TypeError when lang has no classifier)
LoadTrainingSets(s) ==
  LET rec == cyc[s]
      lang == LoadLang(rec)
  IN /\ rec.pc = "load" /\ rec.sub = "trainingSets"
     /\ _exactIntentMatchers' = [_exactIntentMatchers EXCEPT ![lang] = rec.hash]
     /\ Step(s, IF \E i \in DOMAIN languages : languages[i] = lang
                THEN [rec EXCEPT !.sub = "clfLoad"]
                ELSE [rec EXCEPT !.pc = "loadFailed", !.sub = ""])
     /\ UNCHANGED <<faultsLeft, store, intentClassifiers, slotExtractors>>

\* await this.intentClassifiers[lang].load(intentModels) settles
LoadClassifier(s) ==
  LET rec == cyc[s]
      lang == LoadLang(rec)
  IN /\ rec.pc = "load" /\ rec.sub = "clfLoad"
     /\ \E ok \in Outcomes :
          /\ Settle(ok)
          /\ IF ok
             THEN /\ intentClassifiers' = [intentClassifiers EXCEPT ![lang] = rec.hash]
                  /\ Step(s, [rec EXCEPT !.sub = "slotLoad"])
             ELSE /\ UNCHANGED intentClassifiers
                  /\ Step(s, [rec EXCEPT !.pc = "loadFailed", !.sub = ""])
     /\ UNCHANGED <<store, _exactIntentMatchers, slotExtractors>>

\* await this.slotExtractors[lang].load(..) settles; the loop goes to the next language
LoadSlotExtractor(s) ==
  LET rec == cyc[s]
      lang == LoadLang(rec)
  IN /\ rec.pc = "load" /\ rec.sub = "slotLoad"
     /\ \E ok \in Outcomes :
          /\ Settle(ok)
          /\ IF ok
             THEN /\ slotExtractors' = [slotExtractors EXCEPT ![lang] = rec.hash]
                  /\ Step(s, IF rec.li < Len(getTrainingLanguages(rec.intents))
                             THEN [rec EXCEPT !.sub = "getModels", !.li = @ + 1]
                             ELSE [rec EXCEPT !.pc = "loadDone", !.sub = ""])
             ELSE /\ UNCHANGED slotExtractors
                  /\ Step(s, [rec EXCEPT !.pc = "loadFailed", !.sub = ""])
     /\ UNCHANGED <<store, _exactIntentMatchers, intentClassifiers>>

\* trainOrLoad resumes after await this.loadModels(..)
LoadReturns(s) ==
  LET rec == cyc[s]
  IN /\ rec.pc \in {"loadDone", "loadFailed"}
     /\ IF rec.pc = "loadDone"
        THEN Finish(s, rec, TRUE)
        ELSE IF LoadErrorCaught(rec.phase)
        THEN /\ Step(s, EnterTrain([rec EXCEPT !.loadFailed = TRUE]))
             /\ UNCHANGED <<store, modelVars>>
        ELSE Finish(s, rec, FALSE)
     /\ UNCHANGED faultsLeft

\* await this.intentClassifiers[lang].train(trainableIntents, modelHash) settles
TrainClassifier(s) ==
  LET rec == cyc[s]
  IN /\ rec.pc = "train" /\ rec.sub = "clfTrain"
     /\ \E ok \in Outcomes :
          /\ Settle(ok)
          /\ Step(s, IF ok THEN [rec EXCEPT !.sub = "slotTrain"]
                  ELSE TrainFrom([rec EXCEPT !.raised = @ \cup {languages[rec.li]}],
                                 AfterTrainError(rec.li)))
     /\ UNCHANGED <<store, modelVars>>

\* await this._trainSlotTagger(..) settles: both payloads, none (language && crf falsy), or an error
TrainSlotTagger(s) ==
  LET rec == cyc[s]
  IN /\ rec.pc = "train" /\ rec.sub = "slotTrain"
     /\ \E out \in TaggerOutcomes :
          /\ Settle(out = "both")
          /\ Step(s, CASE out = "both" -> [rec EXCEPT !.sub = "persist",
                                                   !.slotModels = {"skipgram", "crf"}]
                    [] out = "none" -> [rec EXCEPT !.sub = "persist", !.slotModels = {}]
                    [] out = "raise" ->
                         TrainFrom([rec EXCEPT !.raised = @ \cup {languages[rec.li]}],
                                   AfterTrainError(rec.li)))
     /\ UNCHANGED <<store, modelVars>>

\* await this.storage.persistModels([...slotTaggerModels, ...ctx_intent_models], lang) settles
PersistModels(s) ==
  LET rec == cyc[s]
      lang == languages[rec.li]
  IN /\ rec.pc = "train" /\ rec.sub = "persist"
     /\ \E ok \in Outcomes :
          /\ Settle(ok)
          /\ IF ok
             THEN /\ store' = store \cup {<<rec.hash, lang, t>> : t \in rec.slotModels \cup {"intent"}}
                  /\ Step(s, TrainFrom(rec, rec.li + 1))
             ELSE /\ UNCHANGED store
                  /\ Step(s, TrainFrom([rec EXCEPT !.raised = @ \cup {lang}],
                                       AfterTrainError(rec.li)))
     /\ UNCHANGED modelVars

\* trainOrLoad resumes after await this.trainModels(..) and calls loadModels again
TrainReturns(s) ==
  /\ cyc[s].pc = "trainDone"
  /\ Step(s, EnterLoad(cyc[s], 2))
  /\ UNCHANGED <<faultsLeft, store, modelVars>>

(***************************************************************************)
(* init, the staleness timer, extract and external callers.                *)
(***************************************************************************)
\* !isNaN(this._autoTrainInterval) && this._autoTrainInterval >= 5000
TimerEnabled(interval) == interval >= MinAutoTrainInterval

\* init(); config.preloadModels is read here only, so its value is drawn here
init ==
  /\ ~inited
  /\ inited' = TRUE
  /\ \E preloadModels \in BOOLEAN :
       IF preloadModels
       THEN TrainOrLoad(FALSE)
       ELSE UNCHANGED <<ncalls, _isSyncing, _isSyncingTwice, cyc, started, lastRet>>
  /\ _autoTrainTimer' = (_autoTrainTimer \/ TimerEnabled(_autoTrainInterval))
  /\ UNCHANGED <<callFrame, faultsLeft, timer, ex, pipeVars>>

checkSyncNeeded_anyHash(intents) == Len(intents) > 0 /\ ~_isSyncing

\* checkSyncNeeded, after its await of storage.getIntents()
checkSyncNeeded(intents) ==
  /\ Len(intents) > 0
  /\ _currentModelHash # computeModelHash(intents)
  /\ ~_isSyncing

\* the interval fires: if (this._preloaded && (await this.checkSyncNeeded()))
TimerTick ==
  /\ _autoTrainTimer
  /\ timer.pc = "idle"
  /\ _preloaded
  /\ timer' = [timer EXCEPT !.pc = "checking"]
  /\ UNCHANGED <<envVars, engineVars, modelVars, _autoTrainTimer, inited, ex, cyc,
                 ncalls, histVars, pipeVars>>
  /\ UNCHANGED faultsLeft

\* storage.getIntents() settles inside checkSyncNeeded
TimerCheck ==
  /\ timer.pc = "checking"
  /\ \E ok \in Outcomes :
       /\ Settle(ok)
       /\ timer' = IF ok /\ checkSyncNeeded(intentDefs)
                   THEN [pc |-> "decided", needed |-> TRUE]
                   ELSE [pc |-> "idle", needed |-> FALSE]
  /\ UNCHANGED <<envVars, engineVars, modelVars, _autoTrainTimer, inited, ex, cyc,
                 ncalls, histVars, pipeVars>>

\* the callback resumes after the await and calls this.trainOrLoad()
TimerInvoke ==
  /\ timer.pc = "decided"
  /\ TrainOrLoad(FALSE)
  /\ timer' = [pc |-> "idle", needed |-> FALSE]
  /\ UNCHANGED <<callFrame, faultsLeft, _autoTrainTimer, inited, ex, pipeVars>>

\* a caller outside the engine (the module's train routes and file watchers)
ExternalCall ==
  /\ \E force \in BOOLEAN : TrainOrLoad(force)
  /\ UNCHANGED <<callFrame, faultsLeft, _autoTrainTimer, inited, timer, ex, pipeVars>>

\* extract, up to its first await: if (!this._preloaded) await this.trainOrLoad().
\* The locals of the call before this one are gone.
ExtractCall ==
  /\ ex.pc = "idle"
  /\ IF ~_preloaded
     THEN /\ TrainOrLoad(FALSE)
          /\ ex' = [ex EXCEPT !.pc = IF AlreadySyncing THEN "pipeline" ELSE "awaitSync"]
     ELSE /\ UNCHANGED <<ex, ncalls, _isSyncing, _isSyncingTwice, cyc, started, lastRet>>
  /\ run' = IdleRun
  /\ ds' = NoDs
  /\ UNCHANGED <<callFrame, faultsLeft, _autoTrainTimer, inited, timer,
                 defaultLanguage, now, pf>>

\* extract goes on to run the pipeline
ExtractPipeline ==
  /\ ex.pc = "pipeline"
  /\ ex' = [pc |-> "idle"]
  /\ UNCHANGED <<envVars, faultsLeft, engineVars, modelVars, _autoTrainTimer, inited,
                 timer, cyc, ncalls, histVars, pipeVars>>

CycleStep ==
  \E s \in Slots :
    \/ GetIntentsDone(s)
    \/ LoadGetModels(s)
    \/ LoadTrainingSets(s)
    \/ LoadClassifier(s)
    \/ LoadSlotExtractor(s)
    \/ LoadReturns(s)
    \/ TrainClassifier(s)
    \/ TrainSlotTagger(s)
    \/ PersistModels(s)
    \/ TrainReturns(s)

\* the engine driven by external callers only: init() not called, no extract
CycleNext ==
  \/ ExternalCall
  \/ EditIntents
  \/ \E s \in Slots : GetIntentsDone(s)
  \/ \E s \in Slots : LoadGetModels(s)
  \/ \E s \in Slots : LoadTrainingSets(s)
  \/ \E s \in Slots : LoadClassifier(s)
  \/ \E s \in Slots : LoadSlotExtractor(s)
  \/ \E s \in Slots : LoadReturns(s)
  \/ \E s \in Slots : TrainClassifier(s)
  \/ \E s \in Slots : TrainSlotTagger(s)
  \/ \E s \in Slots : PersistModels(s)
  \/ \E s \in Slots : TrainReturns(s)

Next ==
  \/ init
  \/ ExternalCall
  \/ ExtractCall
  \/ ExtractPipeline
  \/ TimerTick
  \/ TimerCheck
  \/ TimerInvoke
  \/ EditIntents
  \/ \E s \in Slots : GetIntentsDone(s)
  \/ \E s \in Slots : LoadGetModels(s)
  \/ \E s \in Slots : LoadTrainingSets(s)
  \/ \E s \in Slots : LoadClassifier(s)
  \/ \E s \in Slots : LoadSlotExtractor(s)
  \/ \E s \in Slots : LoadReturns(s)
  \/ \E s \in Slots : TrainClassifier(s)
  \/ \E s \in Slots : TrainSlotTagger(s)
  \/ \E s \in Slots : PersistModels(s)
  \/ \E s \in Slots : TrainReturns(s)


Spec == Init /\ [][Next]_vars

\* any stored definitions, external callers only
CycleInit == InitWith(IntentSets, {4999}, MaxFaults)
CycleSpec == CycleInit /\ [][CycleNext]_vars

\* the same, with a storage and learners that never reject
NoFaultInit == InitWith(IntentSets, {4999}, 0)
NoFaultSpec == NoFaultInit /\ [][CycleNext]_vars

\* every awaited operation of a running cycle settles
LiveSpec == CycleInit /\ [][CycleNext]_vars /\ WF_vars(CycleStep)

(***************************************************************************)
(* extract in detail: the six stages of _pipeline run by the pipeline      *)
(* manager under retry(.., retryPolicy).  The runner is made once per      *)
(* extract call and run() is called once per attempt, so every attempt     *)
(* threads the same NLUStructure through the stages.                       *)
(***************************************************************************)
MaxStageFaults == 3   \* rejections of collaborators in one pipeline run

\* retryPolicy
interval == 100
max_interval == 500
timeout == 5000
max_tries == 3

\* confidenceTreshold, in tenths
confidenceTreshold == 7

\* texts given to extract, and time an awaited operation can take
Texts == {"U1", "u9"}
Delays == {0, 5000}
\* includedContexts given to extract
ContextLists == {<<>>, <<"sales">>, <<"global", "sales">>}
\* what langIdentifier.identify resolves to ("undefined": nothing detected)
DetectedLangs == {"en", "fr", "de", "n/a", "undefined"}

toLowerCase(text) == IF text = "U1" THEN "u1" ELSE text

\* the system entities found in a text: the number of "u9", found or missed
EntityOutcomes(lowerText) ==
  IF lowerText = "u9" THEN {<<>>, <<[type |-> "number", value |-> "9"]>>} ELSE {<<>>}

\* getTextWithoutEntities(entities, rawText): the text with the entity spans removed
getTextWithoutEntities(entities, rawText) ==
  IF entities # <<>> /\ rawText = "u9" THEN "u" ELSE rawText

\* this.languages.includes(lang)
Configured(lang) == \E i \in DOMAIN languages : languages[i] = lang

\* initNLUStruct(text, includedContexts)
initNLUStruct(text, includedContexts) ==
  [NoDs EXCEPT !.rawText = text, !.includedContexts = includedContexts]

\* the lookup of the exact matcher built from the training set of `intents` for `lang`:
\* the first intent with this utterance, in one of the contexts when contexts are given
exactMatch(intents, lang, text, contexts) ==
  LET inCtx(i) == contexts = <<>> \/
                  \E c \in DOMAIN intents[i].contexts, k \in DOMAIN contexts :
                      intents[i].contexts[c] = contexts[k]
      hits == {i \in DOMAIN intents :
                 /\ \E u \in DOMAIN UtterancesOf(intents[i], lang) :
                       UtterancesOf(intents[i], lang)[u] = text
                 /\ inCtx(i)}
  IN IF hits = {} THEN NoIntent
     ELSE LET i == CHOOSE h \in hits : \A j \in hits : h <= j
          IN [name |-> intents[i].name, context |-> intents[i].contexts[1], confidence |-> 10]

\* ranked predictions a classifier can resolve to
Rankings ==
  { <<>>,
    <<[name |-> "greet", context |-> "global", confidence |-> 9]>>,
    <<[name |-> "bye", context |-> "sales", confidence |-> 9]>>,
    <<[name |-> "greet", context |-> "global", confidence |-> 5],
      [name |-> "bye", context |-> "sales", confidence |-> 4],
      [name |-> "greet", context |-> "global", confidence |-> 3]>> }

\* predict(tokens, includedContexts): a ranking within the given contexts
PredictOutcomes(contexts) ==
  {r \in Rankings :
     contexts = <<>> \/
     \A i \in DOMAIN r : \E k \in DOMAIN contexts : r[i].context = contexts[k]}

NoneIntent == [name |-> "none", context |-> "global", confidence |-> 10]

\* findMostConfidentIntentMeanStd(intents, treshold): the top of the ranking when it
\* clears the threshold and the runner-up, the reserved intent "none" otherwise
findMostConfidentIntentMeanStd(intents, treshold) ==
  IF intents = <<>> THEN NoneIntent
  ELSE IF intents[1].confidence >= treshold
          /\ (Len(intents) = 1 \/ intents[1].confidence > intents[2].confidence)
  THEN intents[1] ELSE NoneIntent

\* _.chain(intents).map(p => p.context).uniq().value()
ContextsOf(intents) == Uniq([i \in DOMAIN intents |-> intents[i].context])

\* what the slot tagger's extract can resolve to
SlotOutcomes == {<<>>, <<"slot1">>}

\* the interval of the next retry: backoff is 1, capped by max_interval
Backoff(i) == IF i > max_interval THEN max_interval ELSE i

\* Date.now() when the language identifier settles: at once, or after the time
\* the retry policy allows for the whole call
Later == {now + d : d \in Delays}

\* what an awaited collaborator of the pipeline can settle to: TRUE is a value, FALSE
\* a rejection
StageOutcomes == IF run.faults < MaxStageFaults THEN BOOLEAN ELSE {TRUE}

\* the run record after the collaborator settled
Settled(ok) == IF ok THEN run ELSE [run EXCEPT !.faults = @ + 1]

\* try_once of retry: run() is called and runs _detectLang up to its await
StartAttempt(r, t) ==
  [r EXCEPT !.stage = "identify", !.sub = 0, !.attempts = @ + 1, !.tryStart = t,
            !.predicted = FALSE, !.tagged = FALSE, !.exact = FALSE]

TriesExhausted_late(tries) == tries = max_tries + 1

\* retry gives up when tries reaches max_tries
TriesExhausted(tries) == tries = max_tries

ElapsedMs_unset(t, t0) == -1

\* res.ms = Date.now() - t0, in the finally block of extract
ElapsedMs(t, t0) == t - t0

\* run() rejected at time t: retry counts the try and gives up, tries again at once or
\* after a delay; on giving up extract logs the error and returns res, the literal
\* { errored: true }, with ms set in the finally block
AttemptFailed(r, t) ==
  LET tries == r.tries + 1
      int == IF tries > 1 THEN Backoff(r.interval) ELSE r.interval
      counted == [r EXCEPT !.tries = tries, !.interval = int, !.sub = 0]
      delay == int - (t - r.tryStart)
  IN IF TriesExhausted(tries) \/ t + int >= r.giveup_time
     THEN [counted EXCEPT !.stage = "idle", !.done = TRUE,
                          !.res = [errored |-> TRUE, ms |-> ElapsedMs(t, r.t0), ctx |-> NoDs]]
     ELSE IF delay <= 0 THEN StartAttempt(counted, t)
     ELSE [counted EXCEPT !.stage = "delay", !.wake = t + delay]

\* run() resolved with the NLUStructure d at time t: res = d, res.errored = false, and
\* res.ms in the finally block
AttemptSucceeded(r, t, d) ==
  [r EXCEPT !.stage = "idle", !.sub = 0, !.done = TRUE, !.succeeded = @ + 1,
            !.res = [errored |-> FALSE, ms |-> ElapsedMs(t, r.t0), ctx |-> d]]

\* a step of the run: extract returns when the run is over
RunStep(r, d, t) ==
  /\ run' = r
  /\ ds' = d
  /\ now' = t
  /\ ex' = IF r.stage = "idle" THEN [pc |-> "idle"] ELSE [pc |-> "pipeline"]
  /\ UNCHANGED <<envVars, faultsLeft, engineVars, modelVars, _autoTrainTimer, inited,
                 timer, cyc, ncalls, histVars, defaultLanguage, pf>>

\* extract after its sync, or called with the engine primed: t0, res, the runner, and
\* the first try of retry.  The clock is counted from here.
PipelineStart ==
  /\ run.stage = "idle"
  /\ ex.pc = "pipeline" \/ (ex.pc = "idle" /\ _preloaded)
  /\ \E text \in Texts, contexts \in ContextLists :
       RunStep(StartAttempt([IdleRun EXCEPT !.text = text, !.includedContexts = contexts,
                                            !.t0 = 0, !.interval = interval,
                                            !.giveup_time = 0 + timeout], 0),
               initNLUStruct(text, contexts), 0)

\* await this.langIdentifier.identify(ds.rawText) settles; the rest of _detectLang
DetectLang ==
  /\ run.stage = "identify"
  /\ \E t \in Later, ok \in StageOutcomes :
       IF ok
       THEN \E lang \in DetectedLangs :
              LET supported == lang # "undefined" /\ lang # "n/a" /\ Configured(lang)
              IN RunStep([run EXCEPT !.stage = "tokenize"],
                         [ds EXCEPT !.detectedLanguage = lang,
                                    !.language = IF supported THEN lang ELSE defaultLanguage],
                         t)
       ELSE RunStep(AttemptFailed(Settled(ok), t), ds, t)

\* await this.languageProvider.tokenize(ds.lowerText, ds.language) settles
Tokenize ==
  /\ run.stage = "tokenize"
  /\ \E ok \in StageOutcomes :
       IF ok
       THEN RunStep([run EXCEPT !.stage = "entities", !.sub = 1],
                    [ds EXCEPT !.lowerText = toLowerCase(ds.rawText),
                               !.tokens = <<toLowerCase(ds.rawText)>>], now)
       ELSE RunStep(AttemptFailed(Settled(ok), now),
                    [ds EXCEPT !.lowerText = toLowerCase(ds.rawText)], now)

\* the four awaits of _extractEntities settle in turn: getCustomEntities,
\* extractPatterns, extractLists and systemEntityExtractor.extract
ExtractEntities ==
  /\ run.stage = "entities"
  /\ \E ok \in StageOutcomes :
       IF ~ok THEN RunStep(AttemptFailed(Settled(ok), now), ds, now)
       ELSE IF run.sub < 4 THEN RunStep([run EXCEPT !.sub = @ + 1], ds, now)
       ELSE \E ents \in EntityOutcomes(ds.lowerText) :
              RunStep([run EXCEPT !.stage = "sanitize", !.sub = 0],
                      [ds EXCEPT !.entities = ents], now)

\* _setTextWithoutEntities
SetTextWithoutEntities ==
  /\ run.stage = "sanitize"
  /\ RunStep([run EXCEPT !.stage = "intents"],
             [ds EXCEPT !.sanitizedText =
                           toLowerCase(getTextWithoutEntities(ds.entities, ds.rawText))],
             now)

\* _extractIntents up to its await: the exact match returns ds at once; otherwise
\* predict is called, a TypeError when the language has no classifier
ExtractIntents ==
  LET matcher == _exactIntentMatchers[ds.language]
      exactIntent == IF matcher = NoHash THEN NoIntent
                     ELSE exactMatch(HashInputs[matcher], ds.language,
                                     ds.sanitizedText, ds.includedContexts)
  IN /\ run.stage = "intents"
     /\ IF exactIntent # NoIntent
        THEN RunStep([run EXCEPT !.stage = "slots", !.exact = TRUE],
                     [ds EXCEPT !.intent = exactIntent, !.intents = <<exactIntent>>], now)
        ELSE IF Configured(ds.language)
        THEN RunStep([run EXCEPT !.stage = "predict", !.predicted = TRUE], ds, now)
        ELSE RunStep(AttemptFailed(run, now), ds, now)

\* await this.intentClassifiers[ds.language].predict(..) settles; the rest of
\* _extractIntents
Predict ==
  /\ run.stage = "predict"
  /\ \E ok \in StageOutcomes :
       IF ok
       THEN \E intents \in PredictOutcomes(ds.includedContexts) :
              RunStep([run EXCEPT !.stage = "slots"],
                      [ds EXCEPT !.includedContexts = ContextsOf(intents),
                                 !.intents = intents,
                                 !.intent = findMostConfidentIntentMeanStd(
                                               intents, confidenceTreshold)],
                      now)
       ELSE RunStep(AttemptFailed(Settled(ok), now), ds, now)

SkipSlots_never(intent) == FALSE

\* if (ds.intent.name === 'none')
SkipSlots(intent) == intent.name = "none"

\* _extractSlots up to its await: a "none" intent ends the run, otherwise
\* storage.getIntent is called
ExtractSlots ==
  /\ run.stage = "slots"
  /\ IF SkipSlots(ds.intent)
     THEN RunStep(AttemptSucceeded(run, now, ds), ds, now)
     ELSE RunStep([run EXCEPT !.stage = "getIntent"], ds, now)

\* await this.storage.getIntent(ds.intent.name) settles and the tagger's extract is
\* called, a TypeError when the language has no slot extractor
GetIntent ==
  /\ run.stage = "getIntent"
  /\ \E ok \in StageOutcomes :
       IF ok /\ Configured(ds.language)
       THEN RunStep([run EXCEPT !.stage = "tagger", !.tagged = TRUE], ds, now)
       ELSE RunStep(AttemptFailed(Settled(ok), now), ds, now)

\* await this.slotExtractors[ds.language].extract(..) settles
TaggerExtract ==
  /\ run.stage = "tagger"
  /\ \E ok \in StageOutcomes :
       IF ok
       THEN \E slots \in SlotOutcomes :
              RunStep(AttemptSucceeded(run, now, [ds EXCEPT !.slots = slots]),
                      [ds EXCEPT !.slots = slots], now)
       ELSE RunStep(AttemptFailed(Settled(ok), now), ds, now)

\* the delay before the next try of retry elapses
RetryDelay ==
  /\ run.stage = "delay"
  /\ LET t == IF run.wake > now THEN run.wake ELSE now
     IN RunStep(StartAttempt(run, t), ds, t)

\* extract calls served by an engine constructed with any default language
PipeInit ==
  /\ EngineInit(IntentSets, {4999}, 0)
  /\ defaultLanguage \in {"en", "de"}
  /\ now = 0
  /\ run = IdleRun
  /\ ds = NoDs
  /\ pf = NoPf

PipeNext ==
  \/ ExtractCall
  \/ PipelineStart
  \/ DetectLang
  \/ Tokenize
  \/ ExtractEntities
  \/ SetTextWithoutEntities
  \/ ExtractIntents
  \/ Predict
  \/ ExtractSlots
  \/ GetIntent
  \/ TaggerExtract
  \/ RetryDelay
  \/ \E s \in Slots : GetIntentsDone(s)
  \/ \E s \in Slots : LoadGetModels(s)
  \/ \E s \in Slots : LoadTrainingSets(s)
  \/ \E s \in Slots : LoadClassifier(s)
  \/ \E s \in Slots : LoadSlotExtractor(s)
  \/ \E s \in Slots : LoadReturns(s)
  \/ \E s \in Slots : TrainClassifier(s)
  \/ \E s \in Slots : TrainSlotTagger(s)
  \/ \E s \in Slots : PersistModels(s)
  \/ \E s \in Slots : TrainReturns(s)

PipeSpec == PipeInit /\ [][PipeNext]_vars

\* the continuation of an extract call and the steps of its pipeline run
PipeStep ==
  \/ PipelineStart
  \/ DetectLang
  \/ Tokenize
  \/ ExtractEntities
  \/ SetTextWithoutEntities
  \/ ExtractIntents
  \/ Predict
  \/ ExtractSlots
  \/ GetIntent
  \/ TaggerExtract
  \/ RetryDelay

\* an engine with the default language "en" whose sync succeeds (IntentUniverse[2]) or
\* fails in every cycle (IntentUniverse[3])
PipeLiveInit ==
  /\ EngineInit({IntentUniverse[2], IntentUniverse[3]}, {4999}, 0)
  /\ defaultLanguage = "en"
  /\ now = 0
  /\ run = IdleRun
  /\ ds = NoDs
  /\ pf = NoPf

\* every awaited operation of a sync cycle and of a pipeline run settles
PipeLiveSpec ==
  PipeLiveInit /\ [][PipeNext]_vars /\ WF_vars(CycleStep) /\ WF_vars(PipeStep)

(***************************************************************************)
(* extract calls served while other callers start sync cycles and the      *)
(* stored definitions are edited: pipeline runs concurrent with loadModels. *)
(***************************************************************************)
ConcInit ==
  /\ EngineInit({IntentUniverse[2]}, {4999}, 0)
  /\ defaultLanguage = "en"
  /\ now = 0
  /\ run = IdleRun
  /\ ds = NoDs
  /\ pf = NoPf

\* the callers and collaborators of these runs: no included contexts are passed, every
\* collaborator of the pipeline answers at once and with a value, the identifier
\* detects a configured language and the entity extractors find nothing
Calm ==
  /\ run.includedContexts = <<>> /\ run.faults = 0 /\ now = 0
  /\ ds.detectedLanguage = ds.language
  /\ ds.entities = <<>>

\* extract is called with the engine primed
ConcNext ==
  \/ ExternalCall
  \/ EditIntents
  \/ PipelineStart /\ Calm'
  \/ DetectLang /\ Calm'
  \/ Tokenize /\ Calm'
  \/ ExtractEntities /\ Calm'
  \/ SetTextWithoutEntities /\ Calm'
  \/ ExtractIntents /\ Calm'
  \/ Predict /\ Calm'
  \/ ExtractSlots /\ Calm'
  \/ GetIntent /\ Calm'
  \/ TaggerExtract /\ Calm'
  \/ \E s \in Slots : GetIntentsDone(s)
  \/ \E s \in Slots : LoadGetModels(s)
  \/ \E s \in Slots : LoadTrainingSets(s)
  \/ \E s \in Slots : LoadClassifier(s)
  \/ \E s \in Slots : LoadSlotExtractor(s)
  \/ \E s \in Slots : LoadReturns(s)
  \/ \E s \in Slots : TrainClassifier(s)
  \/ \E s \in Slots : TrainSlotTagger(s)
  \/ \E s \in Slots : PersistModels(s)
  \/ \E s \in Slots : TrainReturns(s)

ConcSpec == ConcInit /\ [][ConcNext]_vars

(***************************************************************************)
(* computeModelHash applied on its own to two lists of intent definitions. *)
(***************************************************************************)
HashInit ==
  /\ EngineInit({<<>>}, {4999}, 0)
  /\ defaultLanguage = "en"
  /\ now = 0
  /\ run = IdleRun
  /\ ds = NoDs
  /\ \E a \in DOMAIN HashInputs, b \in DOMAIN HashInputs :
       pf = [op |-> "hash", a |-> HashInputs[a], b |-> HashInputs[b],
             ha |-> NoHash, again |-> NoHash, hb |-> NoHash, done |-> FALSE]

\* computeModelHash(a), computeModelHash(a) once more, and computeModelHash(b)
ComputeModelHash ==
  /\ pf.op = "hash" /\ ~pf.done
  /\ pf' = [pf EXCEPT !.ha = computeModelHash(pf.a), !.again = computeModelHash(pf.a),
                      !.hb = computeModelHash(pf.b), !.done = TRUE]
  /\ UNCHANGED <<envVars, faultsLeft, engineVars, modelVars, _autoTrainTimer, inited,
                 timer, ex, cyc, ncalls, histVars, defaultLanguage, now, run, ds>>

HashNext == ComputeModelHash

HashSpec == HashInit /\ [][HashNext]_vars

(***************************************************************************)
(* getFeatPairs (engine2/featurizer2.ts) applied on its own.  A JavaScript *)
(* value is [type, val]; a CRFFeature is [name, value, boost], its boost   *)
(* undefined when the property is absent.                                  *)
(***************************************************************************)
MaxFeats == 2    \* features in one feature list

Undefined == [type |-> "undefined"]
Str(x) == [type |-> "string", val |-> x]
Num(n) == [type |-> "number", val |-> n]
Bool(b) == [type |-> "boolean", val |-> b]

\* an object is truthy, undefined is not
Defined(x) == x # Undefined

\* _.get(obj, key, dflt): dflt when obj is undefined or the property resolves to undefined
Get(obj, key, dflt) ==
  IF ~Defined(obj) THEN dflt
  ELSE IF ~Defined(obj[key]) THEN dflt ELSE obj[key]

\* what a template literal writes for a value
TemplateText(v) ==
  CASE v.type = "string" -> v.val
    [] v.type = "boolean" -> (IF v.val THEN "true" ELSE "false")

\* `${l}|${r}`
PairValue(l, r) == Str(<<TemplateText(l), "|", TemplateText(r)>>)

MathMax(a, b) == IF a.val >= b.val THEN a ELSE b

\* feats.find(f => f.name === targetFeat)
Find(feats, targetFeat) ==
  LET hits == {i \in DOMAIN feats : feats[i].name = targetFeat}
  IN IF hits = {} THEN Undefined
     ELSE feats[CHOOSE i \in hits : \A j \in hits : i <= j]

valueOf(feat) == Get(feat, "value", Str("null"))

boostOf_zero(feat) == Get(feat, "boost", Num(0))

boostOf(feat) == Get(feat, "boost", Num(1))

getFeatPairs(feats0, feats1, featNames) ==
  LET mapped == [i \in DOMAIN featNames |->
                   LET f0 == Find(feats0, featNames[i])
                       f1 == Find(feats1, featNames[i])
                   IN IF Defined(f0) \/ Defined(f1)
                      THEN [name |-> featNames[i],
                            value |-> PairValue(valueOf(f0), valueOf(f1)),
                            boost |-> MathMax(boostOf(f0), boostOf(f1))]
                      ELSE Undefined]
  IN SelectSeq(mapped, Defined)

\* the features the lists are drawn from: a word and a vocabulary flag, with no boost,
\* boost 0 and boost 3
Features ==
  {[name |-> "word", value |-> Str("a"), boost |-> b] : b \in {Undefined, Num(0), Num(3)}}
  \cup {[name |-> "inVocab", value |-> Bool(TRUE), boost |-> b] : b \in {Undefined, Num(0), Num(3)}}

FeatLists == UNION {[1 .. k -> Features] : k \in 0 .. MaxFeats}

FeatNameLists ==
  {<<"word", "inVocab">>, <<"inVocab", "word">>, <<"cluster", "word">>, <<"word">>}

FeatInit ==
  /\ EngineInit({<<>>}, {4999}, 0)
  /\ defaultLanguage = "en"
  /\ now = 0
  /\ run = IdleRun
  /\ ds = NoDs
  /\ \E f0 \in FeatLists, f1 \in FeatLists, names \in FeatNameLists :
       pf = [op |-> "feat", feats0 |-> f0, feats1 |-> f1, featNames |-> names,
             out |-> <<>>, done |-> FALSE]

GetFeatPairs ==
  /\ pf.op = "feat" /\ ~pf.done
  /\ pf' = [pf EXCEPT !.out = getFeatPairs(pf.feats0, pf.feats1, pf.featNames),
                      !.done = TRUE]
  /\ UNCHANGED <<envVars, faultsLeft, engineVars, modelVars, _autoTrainTimer, inited,
                 timer, ex, cyc, ncalls, histVars, defaultLanguage, now, run, ds>>

FeatNext == GetFeatPairs

FeatSpec == FeatInit /\ [][FeatNext]_vars

(***************************************************************************)
(* Properties.                                                             *)
(***************************************************************************)
\* the cycle in slot s ends in this step
Ending(s) == Active(s) /\ lastEnd'.n # lastEnd.n

ConfiguredTrainable(intents) ==
  {languages[i] : i \in {j \in DOMAIN languages : TrainableIntents(intents, languages[j]) # <<>>}}

\* C1: a call that arrives while a cycle is in flight starts no cycle of its own, and
\* a cycle that ends starts exactly one follow-up cycle if at least one call arrived
\* during it and none otherwise, however many calls arrived: with N calls arriving
\* during one cycle and none after, 2 cycles run.
C1_Coalescing ==
  /\ [][(ncalls' # ncalls /\ ActiveSlots # {}) => started' = started]_vars
  /\ [][\A s \in Slots :
          Ending(s) => started' = started + (IF cyc[s].busy THEN 1 ELSE 0)]_vars
  /\ [](started <= ncalls)

\* two calls arrived during the first cycle; its follow-up has ended and nothing runs
C1_Witness ==
  ncalls = 3 /\ started = 2 /\ lastEnd.n = 2 /\ ActiveSlots = {} /\ ~_isSyncing

\* C2: at most one sync cycle is executing, and the in-flight flag is set exactly
\* while one is.
C2_OneCycle ==
  /\ Cardinality(ActiveSlots) <= 1
  /\ _isSyncing <=> ActiveSlots # {}

\* a cycle is loading models after calls of init, extract and another caller met it
C2_Witness ==
  \E s \in Slots : cyc[s].pc = "load" /\ cyc[s].busy /\ inited /\ ex.pc = "pipeline"

\* C3: a call that arrives while a cycle is in flight leads, when that cycle ends
\* (succeeded or failed), to the pending flag being cleared and a new cycle being
\* started, which reads the intent definitions anew.
C3_FollowUp ==
  /\ [][\A s \in Slots :
          (Ending(s) /\ cyc[s].busy) =>
             (~_isSyncingTwice' /\ _isSyncing' /\ cyc'[s].pc = "getIntents" /\ ~cyc'[s].busy)]_vars
  /\ (_isSyncingTwice ~>
        (~_isSyncingTwice /\ _isSyncing /\ \E s \in Slots : cyc[s].pc = "getIntents"))

\* a call arrived during a cycle whose reload has just failed: the cycle is about to end
C3_Witness ==
  \E s \in Slots : /\ cyc[s].pc = "loadFailed" /\ cyc[s].phase = 2
                   /\ cyc[s].busy /\ _isSyncingTwice

\* C4: a cycle that fails leaves the current hash, the primed flag and the in-memory
\* models of every language as they were when the cycle started.
C4_LastKnownGood ==
  [][\A s \in Slots : (Ending(s) /\ ~lastEnd'.ok) => Snapshot' = cyc[s].before]_vars

\* C5: for one hash, at most one unforced cycle invokes the learners' train.
C5_TrainOncePerHash ==
  [][\A s \in Slots :
       (Ending(s) /\ ~cyc[s].force /\ cyc[s].attempted # {}) => cyc[s].hash \notin trained]_vars

\* C6: a cycle whose training step completed ends with its load succeeded, its hash
\* recorded as current and the engine primed.
C6_TrainThenLoad ==
  [][\A s \in Slots :
       (Ending(s) /\ cyc[s].phase = 2) =>
          (lastEnd'.ok /\ _currentModelHash' = cyc[s].hash /\ _preloaded')]_vars

\* C7: when the load of an unforced cycle fails, the cycle does not end there: it
\* goes on to train, and it ends only after the reload that follows training.
C7_LoadFailureFallsThrough ==
  /\ [][\A s \in Slots :
          (cyc[s].pc = "loadFailed" /\ cyc[s].phase = 1 /\ cyc'[s].pc # "loadFailed") =>
             (lastEnd' = lastEnd /\ cyc'[s].loadFailed /\ cyc'[s].pc \in {"train", "trainDone"})]_vars
  /\ [][\A s \in Slots : (Ending(s) /\ cyc[s].loadFailed) => cyc[s].phase = 2]_vars

\* the first load failed and the cycle is reloading what it trained
C7_Witness ==
  \E s \in Slots : cyc[s].pc = "load" /\ cyc[s].phase = 2 /\ cyc[s].loadFailed
                   /\ ~cyc[s].force /\ cyc[s].attempted # {}

\* C8: every call of trainOrLoad resolves to the current model hash: the call that
\* returns early while a sync is in flight, and the calls settled by the end of a cycle.
C8_ResolvesToCurrentHash ==
  [][((ncalls' # ncalls /\ started' = started) \/ (lastEnd'.n # lastEnd.n /\ ~_isSyncing'))
       => lastRet' = _currentModelHash']_vars

\* C9: trainModels attempts every configured language that has trainable intents
\* whatever raised for the others, the artifacts of the languages that did not raise
\* are persisted, and trainModels returns normally.
C9_TrainIsolation ==
  /\ [](\A s \in Slots :
          cyc[s].pc = "trainDone" =>
             /\ cyc[s].attempted = ConfiguredTrainable(cyc[s].intents)
             /\ \A l \in cyc[s].attempted \ cyc[s].raised : <<cyc[s].hash, l, "intent">> \in store)
  /\ [][\A s \in Slots :
          (cyc[s].pc = "train" /\ cyc'[s].pc # "train") =>
             (cyc'[s].pc = "trainDone" /\ lastEnd' = lastEnd)]_vars

\* training raised for en, and fr was still trained and persisted
C9_Witness ==
  \E s \in Slots : /\ cyc[s].pc = "trainDone"
                   /\ cyc[s].raised = {"en"}
                   /\ cyc[s].attempted = {"en", "fr"}
                   /\ <<cyc[s].hash, "fr", "intent">> \in store

\* C10: the staleness check decides to sync only when the engine is primed, the hash
\* of the definitions it read differs from the current hash and no cycle is in flight;
\* its call starts a cycle only when none is in flight at that moment; and below the
\* minimum interval the timer is never armed.
C10_StalenessCheck ==
  /\ [](timer.pc = "decided" => _preloaded)
  /\ [][(timer.pc = "checking" /\ timer'.pc = "decided") =>
          (_preloaded /\ computeModelHash(intentDefs) # _currentModelHash
             /\ ActiveSlots = {})]_vars
  /\ [][(timer.pc = "decided" /\ timer'.pc = "idle" /\ started' # started) =>
          (ActiveSlots = {} /\ _preloaded)]_vars
  /\ [](_autoTrainInterval < MinAutoTrainInterval => (~_autoTrainTimer /\ timer.pc = "idle"))

\* the check found a drift with nothing in flight and is about to call trainOrLoad
C10_Witness ==
  timer.pc = "decided" /\ ~_isSyncing /\ _preloaded
  /\ computeModelHash(intentDefs) # _currentModelHash /\ ncalls < MaxCalls

\* C19: a cycle attempts the load of stored artifacts only if forceRetrain is false and
\* modelExists(hash, lang) holds for every configured language; with artifacts missing
\* for a configured language it goes to training without a load attempt.
C19_LoadOnlyIfModelsExist ==
  [][\A s \in Slots :
       (cyc[s].pc = "getIntents" /\ cyc'[s].pc \in {"load", "loadDone", "loadFailed"}) =>
          (~cyc'[s].force /\ \A i \in DOMAIN languages : modelExists(cyc'[s].hash, languages[i]))]_vars

\* the keys of an intent's utterances object, as a set
KeySet(intent) == {KeysOf(intent)[i] : i \in DOMAIN KeysOf(intent)}

\* two lists of definitions with the same content, whatever the order of their object keys
SameContent(a, b) ==
  /\ Len(a) = Len(b)
  /\ \A i \in DOMAIN a :
       /\ a[i].name = b[i].name
       /\ a[i].contexts = b[i].contexts
       /\ KeySet(a[i]) = KeySet(b[i])
       /\ \A l \in Langs : UtterancesOf(a[i], l) = UtterancesOf(b[i], l)

\* C17: computeModelHash gives the same hash on a repeated call with the same
\* definitions, and the same hash for two lists of definitions that have the same
\* content and differ only in the order of their object keys.
C17_HashKeyOrderIndependent ==
  (pf.op = "hash" /\ pf.done) =>
     /\ pf.ha = pf.again
     /\ SameContent(pf.a, pf.b) => pf.ha = pf.hb

\* a feature list has a feature of this name
HasFeat(feats, n) == \E i \in DOMAIN feats : feats[i].name = n

\* the text of one side: the value of its feature of this name, "null" when it has none
SideText(feats, n) ==
  IF HasFeat(feats, n) THEN TemplateText(Find(feats, n).value) ELSE "null"

\* the boost of one side: 1 when the side or its boost is absent
SideBoost(feats, n) ==
  IF HasFeat(feats, n) /\ Find(feats, n).boost # Undefined THEN Find(feats, n).boost.val ELSE 1

\* C18: getFeatPairs returns, in the order of featNames, one feature for each name
\* present in feats0 or feats1 and none for a name present in neither; its value is
\* value(left)|value(right) with 'null' for an absent side, its boost the maximum of
\* the two sides' boosts, an absent side or absent boost counting as 1.
C18_FeatPairs ==
  (pf.op = "feat" /\ pf.done) =>
     LET present(n) == HasFeat(pf.feats0, n) \/ HasFeat(pf.feats1, n)
         names == SelectSeq(pf.featNames, present)
     IN /\ Len(pf.out) = Len(names)
        /\ \A i \in DOMAIN pf.out :
             LET l == SideBoost(pf.feats0, names[i])
                 r == SideBoost(pf.feats1, names[i])
             IN /\ pf.out[i].name = names[i]
                /\ pf.out[i].value =
                     Str(<<SideText(pf.feats0, names[i]), "|", SideText(pf.feats1, names[i])>>)
                /\ pf.out[i].boost = Num(IF l >= r THEN l ELSE r)

\* one name is in neither list, the other only on the right with boost 0: one feature
\* comes out, with the sentinel on the left and boost 1
C18_Witness ==
  /\ pf.op = "feat" /\ pf.done
  /\ pf.featNames = <<"cluster", "word">>
  /\ pf.feats0 = <<[name |-> "inVocab", value |-> Bool(TRUE), boost |-> Num(3)]>>
  /\ pf.feats1 = <<[name |-> "word", value |-> Str("a"), boost |-> Num(0)]>>
  /\ pf.out = <<[name |-> "word", value |-> Str(<<"null", "|", "a">>), boost |-> Num(1)]>>

\* C11: every extract call returns, and what it returns has a boolean errored field
\* and a non-negative ms, whether a try of the pipeline succeeded or all failed.
C11_ExtractWellFormed ==
  /\ [](run.done => (run.res.errored \in BOOLEAN /\ run.res.ms >= 0))
  /\ [][(run.stage # "idle" /\ run'.stage = "idle") =>
          (run'.done /\ ex'.pc = "idle" /\ run'.res.ms >= 0)]_vars
  /\ (ex.pc # "idle" ~> (ex.pc = "idle" /\ run.done))

\* every try failed, the last after time had passed, and extract returned an errored result
C11_Witness ==
  run.done /\ run.res.errored /\ run.attempts = 3 /\ run.res.ms = 200 /\ ex.pc = "idle"

\* C12: the result of a call whose every try failed has errored=true and carries the
\* fields the completed stages produced, such as the language, and the elapsed time.
C12_ErroredKeepsContext ==
  (run.done /\ run.res.errored) =>
     (run.res.ms >= 0 /\ run.res.ctx.language = ds.language /\ run.res.ctx = ds)

\* C13: the stage sequence is run at most max_tries times for one call, no try is made
\* after a try succeeded, and the result is errored exactly when no try succeeded.
C13_BoundedRetry ==
  /\ [](run.attempts <= max_tries /\ run.succeeded <= 1)
  /\ [](run.succeeded = 1 => run.done)
  /\ [](run.done => (run.res.errored <=> run.succeeded = 0))
  /\ [][run.done => (run'.attempts = run.attempts \/ (run'.attempts <= 1 /\ ~run'.done))]_vars

\* two tries failed and the third succeeded
C13_Witness ==
  run.done /\ run.attempts = 3 /\ run.succeeded = 1 /\ ~run.res.errored /\ run.tries = 2

\* C14: when the sanitized text is a stored utterance of intent X for the language of
\* the run, within the requested contexts, the intent stage selects X, ranks exactly
\* [X] and does not call predict.
C14_ExactMatchPrecedence ==
  [][LET X == exactMatch(intentDefs, ds.language, ds.sanitizedText, ds.includedContexts)
     IN (run.stage = "intents" /\ run'.stage # "intents" /\ X # NoIntent) =>
           (ds'.intent = X /\ ds'.intents = <<X>> /\ ~run'.predicted
              /\ run'.stage = "slots")]_vars

\* C15: in a run whose selected intent is "none" the tagger's extract is not invoked
\* and the slots stay empty.
C15_SlotSkip ==
  /\ [](run.tagged => ds.intent.name # "none")
  /\ []((ds.intent.name = "none" /\ run.stage \in {"slots", "idle"}) => ds.slots = <<>>)
  /\ [][(run.stage = "slots" /\ ds.intent.name = "none") =>
          (run'.done /\ ~run'.res.errored /\ ~run'.tagged /\ run'.res.ctx.slots = <<>>)]_vars

\* a second try, after the tagger rejected in the first, selected "none" and returned
C15_Witness ==
  /\ run.done /\ ~run.res.errored /\ run.attempts = 2
  /\ run.res.ctx.intent.name = "none" /\ run.predicted /\ ~run.tagged

\* C16: after the language detection stage the language of the context is one of the
\* configured languages.
C16_LanguageConfigured ==
  [][(run.stage = "identify" /\ run'.stage = "tokenize") => Configured(ds'.language)]_vars

\* C20: the intent stage replaces includedContexts by the contexts of the ranked
\* results only when the caller supplied none; with contexts supplied, and on the
\* exact-match path, it leaves includedContexts as it was.
C20_ContextsFrame ==
  [][(run.stage \in {"intents", "predict"} /\ run'.stage = "slots") =>
        IF run'.exact \/ run.includedContexts # <<>>
        THEN ds'.includedContexts = ds.includedContexts
        ELSE ds'.includedContexts = ContextsOf(ds'.intents)]_vars

\* C21: extract goes on to its pipeline only with the engine primed: an extract called
\* with the engine not primed does not reach the pipeline before a sync cycle has
\* ended successfully, also when it met a cycle already in flight.
C21_PipelineOnlyWhenPrimed ==
  ex.pc = "pipeline" => _preloaded

\* C22: the follow-up cycle that a finished cycle starts runs with forceRetrain false
\* whatever the calls that arrived during that cycle carried; when one of them carried
\* true, the follow-up cycle still goes from its reading of the intents to the load
\* attempt and not to training.
C22_FollowUpNotForced ==
  /\ [](\A s \in Slots : cyc[s].follows # "none" => ~cyc[s].force)
  /\ [][\A s \in Slots :
          (Ending(s) /\ cyc'[s].pc # "idle") =>
             (~cyc'[s].force /\ cyc'[s].follows = (IF cyc[s].forced THEN "forced" ELSE "plain"))]_vars
  /\ [][\A s \in Slots :
          (cyc[s].follows = "forced" /\ cyc[s].pc = "getIntents"
             /\ cyc'[s].pc \notin {"getIntents", "idle"}) =>
             (cyc'[s].phase = 1 /\ cyc'[s].pc \in {"load", "loadDone"})]_vars

\* the follow-up of a cycle that a trainOrLoad(true) call met is loading models
\* without having trained
C22_Witness ==
  \E s \in Slots :
    /\ cyc[s].follows = "forced" /\ cyc[s].pc = "load" /\ cyc[s].phase = 1
    /\ cyc[s].attempted = {}

\* C23: whenever a pipeline run is about to read the models of its language (the
\* exact matcher and the classifier in _extractIntents, the slot tagger in
\* _extractSlots) while a sync cycle is in flight, the exact matcher, the intent
\* classifier and the slot tagger of that language belong to the same model hash.
C23_SameGeneration ==
  (ActiveSlots # {} /\ run.stage \in {"intents", "getIntent"}) =>
     /\ _exactIntentMatchers[ds.language] = intentClassifiers[ds.language]
     /\ intentClassifiers[ds.language] = slotExtractors[ds.language]
====
